---- MODULE Spec2Model ----
(***************************************************************************)
(* The tool-calling conversation loop of the chat server:                  *)
(* QueryHandler::handle_chat and process_tool_calls (query_handler.rs),    *)
(* OllamaClient::chat (ollama.rs), WebSearchClient::search_duckduckgo      *)
(* (websearch.rs) and PythonInvoker::run_script (python_invoker.rs).       *)
(*                                                                         *)
(* A Rust String is modelled as a sequence of tokens; format! and join are *)
(* concatenations of such sequences, the empty String is << >>.            *)
(***************************************************************************)
EXTENDS Integers, Sequences, FiniteSets, TLC

VARIABLES
    system_prompt,  \* QueryHandler.system_prompt, fixed at construction
    pc,             \* position of the request inside handle_chat
    req,            \* the ChatRequest being served: [message, model]
    messages,       \* handle_chat's local `messages`
    chat_response,  \* handle_chat's local `chat_response` of the current round
    http,           \* the HttpResponse returned by handle_chat
    chatLog,        \* history: every OllamaClient::chat call, with its arguments
                    \* and its result
    toolLog,        \* history: every capability invocation, with its arguments,
                    \* what the environment did and what the capability returned
    other,          \* a second request served by the same QueryHandler while
                    \* this one is suspended (None when there is none)
    call            \* a single call of a pure function: its input and its result
                    \* (None when the loop is what runs)

vars == <<system_prompt, pc, req, messages, chat_response, http, chatLog, toolLog,
          other, call>>

\* what a step of one request's handle_chat leaves alone
aux == <<other, call>>

----------------------------------------------------------------------------
(* Bounds of the model                                                     *)

\* the gateway is called at most MaxChatCalls times in one request
MaxChatCalls == 2

\* a search page given to a single call of search holds at most MaxUpstream
\* `.result` elements
MaxUpstream == 3

----------------------------------------------------------------------------
(* Option, Result and String helpers                                       *)

None == [t |-> "None"]
Some(v) == [t |-> "Some", v |-> v]
IsSome(o) == o.t = "Some"
Ok(v) == [t |-> "Ok", v |-> v]
Err(e) == [t |-> "Err", e |-> e]
IsOk(r) == r.t = "Ok"

RECURSIVE Concat(_)
\* the concatenation of a sequence of Strings
Concat(ss) == IF ss = << >> THEN << >> ELSE Head(ss) \o Concat(Tail(ss))

RECURSIVE Join(_, _)
\* Vec<String>::join(sep)
Join(ss, sep) ==
    IF ss = << >> THEN << >>
    ELSE IF Len(ss) = 1 THEN ss[1]
    ELSE ss[1] \o sep \o Join(Tail(ss), sep)

\* s contains sub as a contiguous substring
Contains(s, sub) ==
    \E i \in 0..(Len(s) - Len(sub)) : SubSeq(s, i + 1, i + Len(sub)) = sub

RECURSIVE TrimStart(_)
TrimStart(s) == IF s # << >> /\ Head(s) = " " THEN TrimStart(Tail(s)) ELSE s

RECURSIVE TrimEnd(_)
TrimEnd(s) ==
    IF s # << >> /\ s[Len(s)] = " " THEN TrimEnd(SubSeq(s, 1, Len(s) - 1)) ELSE s

\* str::trim
Trim(s) == TrimEnd(TrimStart(s))

\* {:?} of an Option<i32>
DebugOptI32(o) == IF IsSome(o) THEN <<"Some(", ToString(o.v), ")">> ELSE <<"None">>

----------------------------------------------------------------------------
(* serde_json::Value                                                       *)

JStr(s) == [t |-> "str", v |-> s]
JInt(n) == [t |-> "int", v |-> n]
JArr(a) == [t |-> "arr", v |-> a]
JObj(o) == [t |-> "obj", v |-> o]
\* a number written with a fraction or an exponent (serde_json keeps it as
\* f64): its integer part and its fraction digits
JFloat(int, frac) == [t |-> "float", v |-> <<int, frac>>]
JNull == [t |-> "null", v |-> << >>]
JBool(b) == [t |-> "bool", v |-> b]

\* Value::get(key): Some(member) of an object that has the key, else None
JGet(val, key) ==
    IF val.t = "obj" /\ key \in DOMAIN val.v THEN Some(val.v[key]) ELSE None

\* Option<&Value>::and_then(Value::as_str)
AndThenAsStr(o) == IF IsSome(o) /\ o.v.t = "str" THEN Some(o.v.v) ELSE None

\* an as_u64 that takes every integer, negative ones included
AndThenAsU64_AnyInt(o) ==
    IF IsSome(o) /\ o.v.t = "int" THEN Some(o.v.v) ELSE None

\* Option<&Value>::and_then(Value::as_u64)
AndThenAsU64(o) ==
    IF IsSome(o) /\ o.v.t = "int" /\ o.v.v >= 0 THEN Some(o.v.v) ELSE None

\* Option<&Value>::and_then(Value::as_array)
AndThenAsArray(o) == IF IsSome(o) /\ o.v.t = "arr" THEN Some(o.v.v) ELSE None

\* Option::unwrap_or
UnwrapOr(o, d) == IF IsSome(o) THEN o.v ELSE d

RECURSIVE FilterMapAsStr(_)
\* arr.iter().filter_map(|v| v.as_str()).collect()
FilterMapAsStr(arr) ==
    IF arr = << >> THEN << >>
    ELSE IF Head(arr).t = "str" THEN <<Head(arr).v>> \o FilterMapAsStr(Tail(arr))
    ELSE FilterMapAsStr(Tail(arr))

----------------------------------------------------------------------------
(* WebSearchClient (tools/websearch.rs)                                    *)

\* thiserror Display of WebSearchError::NetworkError
NetworkError(e) == <<"Network error: ">> \o e

\* a SearchResult
SearchResult(title, content, url) == [title |-> title, content |-> content, url |-> url]

\* one `.result` element of the page: its `.result__title a` element (with
\* its text and href attribute) and its `.result__snippet` element, if any
ResultElem(title_elem, snippet_elem) == [title_elem |-> title_elem, snippet_elem |-> snippet_elem]
TitleElem(text, href) == [text |-> text, href |-> href]

\* the body of the for loop for one element: the results it pushes
PushResult(result) ==
    IF IsSome(result.title_elem) /\ IsSome(result.snippet_elem)
    THEN LET title == result.title_elem.v.text
             content == result.snippet_elem.v
             url == UnwrapOr(result.title_elem.v.href, << >>)
         IN IF url # << >>
            THEN <<SearchResult(Trim(title), Trim(content), url)>>
            ELSE << >>
    ELSE << >>

\* Iterator::take(count)
Take(s, count) == SubSeq(s, 1, IF count < Len(s) THEN count ELSE Len(s))

RECURSIVE CollectResults(_)
CollectResults(elems) ==
    IF elems = << >> THEN << >>
    ELSE PushResult(Head(elems)) \o CollectResults(Tail(elems))

\* mutant: an empty result list is reported as a SearchError
search_duckduckgo_EmptyIsError(fetch, count) ==
    IF fetch.t = "neterr" THEN Err(NetworkError(fetch.e))
    ELSE IF CollectResults(Take(fetch.elems, count)) = << >>
         THEN Err(<<"Search error: ", "no results">>)
         ELSE Ok(CollectResults(Take(fetch.elems, count)))

\* a search that takes `count` of the results it could build, not of the
\* elements of the page
search_duckduckgo_TakeResults(fetch, count) ==
    IF fetch.t = "neterr" THEN Err(NetworkError(fetch.e))
    ELSE Ok(Take(CollectResults(fetch.elems), count))

\* search_duckduckgo(query, count), given what the upstream does: the GET
\* fails (fetch.t = "neterr") or returns a page with fetch.elems
search_duckduckgo(fetch, count) ==
    IF fetch.t = "neterr" THEN Err(NetworkError(fetch.e))
    ELSE Ok(CollectResults(Take(fetch.elems, count)))

\* WebSearchClient::search: the only engine is DuckDuckGo
search(fetch, count) == search_duckduckgo(fetch, count)

----------------------------------------------------------------------------
(* PythonInvoker (tools/python_invoker.rs)                                 *)

\* thiserror Display of PythonInvokerError
CommandError(e) == <<"Failed to execute Python script: ">> \o e
ScriptError(e) == <<"Script execution failed: ">> \o e

PythonScriptResult(stdout, stderr, exit_code) ==
    [stdout |-> stdout, stderr |-> stderr, exit_code |-> exit_code]

\* mutant: every exit code counts as success
StatusSuccess_AnyCode(code) == IsSome(code)

\* ExitStatus::success
StatusSuccess(code) == IsSome(code) /\ code.v = 0

\* run_script(script, args), given what the OS does: the spawn fails
\* (proc.t = "spawnerr") or the process ends with proc.code (None when it was
\* killed by a signal), proc.stdout and proc.stderr
run_script(proc) ==
    IF proc.t = "spawnerr" THEN Err(CommandError(proc.e))
    ELSE IF StatusSuccess(proc.code)
         THEN Ok(PythonScriptResult(proc.stdout, proc.stderr, proc.code))
         ELSE Err(ScriptError(<<"Exit Code: ">> \o DebugOptI32(proc.code)
                              \o <<"\nStdout: ">> \o proc.stdout
                              \o <<"\nStderr: ">> \o proc.stderr))

----------------------------------------------------------------------------
(* OllamaClient (llm/ollama.rs)                                            *)

ChatMessage(role, content, tool_calls) ==
    [role |-> role, content |-> content, tool_calls |-> tool_calls]
ToolCall(name, arguments) == [function |-> [name |-> name, arguments |-> arguments]]
ChatResponse(message) == [message |-> message]

\* thiserror Display of OllamaError
RequestError(e) == <<"Failed to send request to Ollama: ">> \o e
ApiError(e) == <<"Ollama API error: ">> \o e

\* OllamaClient::chat, given what the backend does: the POST fails, the status
\* is not a success (with the error text, if it could be read), the payload
\* does not parse into a ChatResponse, or it does
chat(backend) ==
    CASE backend.t = "senderr" -> Err(RequestError(backend.e))
      [] backend.t = "status" -> Err(ApiError(UnwrapOr(backend.text, <<"Unknown error">>)))
      [] backend.t = "parseerr" -> Err(RequestError(backend.e))
      [] backend.t = "ok" -> Ok(backend.response)

----------------------------------------------------------------------------
(* QueryHandler::process_tool_calls (handler/query_handler.rs)             *)

\* the default result count of a websearch request
DefaultCount == 5

\* the `count` handed to WebSearchClient::search
SearchCount(args) == UnwrapOr(AndThenAsU64(JGet(args, "count")), DefaultCount)

\* the `script_args` handed to PythonInvoker::run_script
ScriptArgs(args) ==
    LET a == AndThenAsArray(JGet(args, "args"))
    IN IF IsSome(a) THEN FilterMapAsStr(a.v) ELSE << >>

\* mutant: the arm is chosen by the argument that is present, not by the name
Arm_ByArgument(tool_call) ==
    LET args == tool_call.function.arguments
    IN IF IsSome(AndThenAsStr(JGet(args, "query"))) THEN "websearch"
       ELSE IF IsSome(AndThenAsStr(JGet(args, "script"))) THEN "python_invoker"
       ELSE "skip"

\* the arm of `match tool_name` that a tool call reaches, and whether the
\* `if let Some(..)` inside it matches: the capability it invokes, or "skip"
\* when the iteration falls through to the next tool call
Arm(tool_call) ==
    LET tool_name == tool_call.function.name
        args == tool_call.function.arguments
    IN CASE tool_name = "websearch" ->
              IF IsSome(AndThenAsStr(JGet(args, "query"))) THEN "websearch" ELSE "skip"
         [] tool_name = "python_invoker" ->
              IF IsSome(AndThenAsStr(JGet(args, "script"))) THEN "python_invoker" ELSE "skip"
         [] OTHER -> "skip"

RECURSIVE ForToolCalls_Last(_, _)
\* mutant: the loop does not return at the first tool call it dispatches, the
\* last one wins
ForToolCalls_Last(tool_calls, i) ==
    IF i > Len(tool_calls) THEN 0
    ELSE LET rest == ForToolCalls_Last(tool_calls, i + 1)
         IN IF rest # 0 THEN rest
            ELSE IF Arm(tool_calls[i]) # "skip" THEN i ELSE 0

RECURSIVE ForToolCalls(_, _)
\* `for tool_call in tool_calls`, from position i on: the position of the
\* tool call at which the loop returns, 0 when it runs to its end
ForToolCalls(tool_calls, i) ==
    IF i > Len(tool_calls) THEN 0
    ELSE IF Arm(tool_calls[i]) # "skip" THEN i
    ELSE ForToolCalls(tool_calls, i + 1)

\* the position of the tool call that process_tool_calls dispatches, 0 if none
Dispatched(resp) ==
    IF IsSome(resp.message.tool_calls) THEN ForToolCalls(resp.message.tool_calls.v, 1) ELSE 0

\* results_text of the websearch arm
ResultsText(results) ==
    Join([k \in 1..Len(results) |->
            <<"Title: ">> \o results[k].title \o <<"\nURL: ">> \o results[k].url
            \o <<"\nContent: ">> \o results[k].content \o <<"\n---">>],
         <<"\n">>)

\* the websearch arm, given what the upstream does
WebsearchArm(tool_call, fetch) ==
    LET r == search(fetch, SearchCount(tool_call.function.arguments))
    IN IF IsOk(r)
       THEN Ok(Some(<<tool_call.function.name, ResultsText(r.v)>>))
       ELSE Err(<<"Web search failed: ">> \o r.e)

\* the python_invoker arm, given what the OS does
PythonArm(tool_call, proc) ==
    LET r == run_script(proc)
    IN IF IsOk(r)
       THEN Ok(Some(<<tool_call.function.name,
                      <<"Exit Code: ">> \o DebugOptI32(r.v.exit_code)
                      \o <<"\nStdout: ">> \o r.v.stdout
                      \o <<"\nStderr: ">> \o r.v.stderr>>))
       ELSE Err(<<"Python script execution failed: ">> \o r.e)

\* process_tool_calls(chat_response), given what the environment does for
\* the capability it invokes (env is not read when it invokes none)
process_tool_calls(resp, env) ==
    LET i == Dispatched(resp)
    IN IF i = 0 THEN Ok(None)
       ELSE LET tool_call == resp.message.tool_calls.v[i]
            IN IF Arm(tool_call) = "websearch"
               THEN WebsearchArm(tool_call, env)
               ELSE PythonArm(tool_call, env)

\* the arguments of the capability invocation process_tool_calls makes for
\* the tool call at position i
Invocation(resp, i) ==
    LET tool_call == resp.message.tool_calls.v[i]
        args == tool_call.function.arguments
    IN IF Arm(tool_call) = "websearch"
       THEN [tool |-> "websearch", pos |-> i,
             query |-> AndThenAsStr(JGet(args, "query")).v, count |-> SearchCount(args)]
       ELSE [tool |-> "python_invoker", pos |-> i,
             script |-> AndThenAsStr(JGet(args, "script")).v, args |-> ScriptArgs(args)]

\* what that capability invocation returns to process_tool_calls
CapabilityResult(resp, i, env) ==
    LET tool_call == resp.message.tool_calls.v[i]
    IN IF Arm(tool_call) = "websearch"
       THEN search(env, SearchCount(tool_call.function.arguments))
       ELSE run_script(env)

----------------------------------------------------------------------------
(* The inputs and the environment of one request                           *)

\* the ChatRequests a client may send
Requests ==
    {[message |-> <<"hello">>, model |-> "llama3"],
     [message |-> <<"what", "now">>, model |-> "qwen"]}
Times == {<<"2025-01-01T00:00:00+00:00">>}

\* the prompt read from system_prompt.txt, or the default one
SystemPrompts == {<<"You are a helpful assistant.">>}

\* the tool calls the model may ask for
WsQuery == ToolCall("websearch", JObj([query |-> JStr(<<"news">>)]))
WsZero == ToolCall("websearch", JObj([query |-> JStr(<<"news">>), count |-> JInt(0)]))
WsNoQuery == ToolCall("websearch", JObj([count |-> JInt(1)]))
WsBadQuery == ToolCall("websearch", JObj([query |-> JInt(7)]))
PyScript == ToolCall("python_invoker",
                     JObj([script |-> JStr(<<"print(1)">>), args |-> JArr(<<JStr(<<"a">>), JInt(1)>>)]))
PyNoScript == ToolCall("python_invoker", JObj([args |-> JArr(<< >>)]))
PyBadScript == ToolCall("python_invoker", JObj([script |-> JArr(<< >>)]))
Unknown == ToolCall("calculator", JObj([query |-> JStr(<<"1+1">>), script |-> JStr(<<"1+1">>)]))

\* the tool calls the loop skips for a missing or mistyped required argument
Malformed == {WsNoQuery, WsBadQuery, PyNoScript, PyBadScript}

\* the tool-call lists of an Assistant turn: the empty list; every single
\* tool call; all pairs of well-formed websearch and unknown tool calls; and
\* every malformed tool call followed by a well-formed python_invoker call
ToolCallLists ==
    {<< >>}
    \cup {<<tc>> : tc \in {WsQuery, WsZero, PyScript, Unknown} \cup Malformed}
    \cup {<<tc1, tc2>> : tc1 \in {WsQuery, Unknown}, tc2 \in {WsQuery, Unknown}}
    \cup {<<m, PyScript>> : m \in Malformed}

Contents == {<< >>, <<"answer">>}

\* the ChatResponses the backend may send
Responses ==
    {ChatResponse(ChatMessage("assistant", c, tc)) :
        c \in Contents, tc \in {None} \cup {Some(l) : l \in ToolCallLists}}

\* what the backend may do on one OllamaClient::chat call
Backends ==
    {[t |-> "senderr", e |-> <<"connection refused">>],
     [t |-> "status", text |-> Some(<<"model not found">>)],
     [t |-> "status", text |-> None],
     [t |-> "parseerr", e |-> <<"error decoding response body">>]}
    \cup {[t |-> "ok", response |-> r] : r \in Responses}

\* what the backend may do on one chat call while two requests are served:
\* a request error, a final answer, a websearch call, a python_invoker call
ConcBackends ==
    {[t |-> "senderr", e |-> <<"connection refused">>]}
    \cup {[t |-> "ok", response |-> ChatResponse(ChatMessage("assistant", <<"answer">>, tc))] :
            tc \in {None, Some(<<WsQuery>>), Some(<<Unknown, PyScript>>)}}

\* the `.result` elements a search page may hold
ElemA == ResultElem(Some(TitleElem(<<" ", "A">>, Some(<<"http://a">>))), Some(<<"about A", " ">>))
ElemB == ResultElem(Some(TitleElem(<<"B">>, Some(<<"http://b">>))), Some(<<"about B">>))
ElemNoHref == ResultElem(Some(TitleElem(<<"X">>, None)), Some(<<"about X">>))

ElemEmptyHref == ResultElem(Some(TitleElem(<<"Y">>, Some(<< >>))), Some(<<"about Y">>))
ElemNoTitle == ResultElem(None, Some(<<"about Z">>))
ElemNoSnippet == ResultElem(Some(TitleElem(<<"W">>, Some(<<"http://w">>))), None)

\* what the upstream may do on one search
Fetches ==
    {[t |-> "neterr", e |-> <<"operation timed out">>]}
    \cup {[t |-> "page", elems |-> es] : es \in {<< >>, <<ElemNoHref>>, <<ElemA, ElemNoHref, ElemB>>}}

\* what the OS may do on one run_script
Procs ==
    {[t |-> "spawnerr", e |-> <<"No such file or directory">>]}
    \cup {[t |-> "exit", code |-> c, stdout |-> o, stderr |-> e] :
            c \in {Some(0), Some(1), None}, o \in {<<"out">>}, e \in {<<"err">>}}

----------------------------------------------------------------------------
(* QueryHandler::handle_chat (handler/query_handler.rs)                    *)

\* the tools handed to every OllamaClient::chat call
create_websearch_tool ==
    [type |-> "function", name |-> "websearch", required |-> {"query"}, optional |-> {"count"}]
create_python_invoker_tool ==
    [type |-> "function", name |-> "python_invoker", required |-> {"script"}, optional |-> {"args"}]
Tools == <<create_websearch_tool, create_python_invoker_tool>>

\* the system prompt of a request
SystemPrompt(now) == system_prompt \o <<" Current date and time: ">> \o now

\* the initial `messages`
SeedMessages(message, now) ==
    <<ChatMessage("system", SystemPrompt(now), None), ChatMessage("user", message, None)>>

\* mutant: the Assistant turn is not pushed
PushedMessages_ToolOnly(resp, tool_output) == <<ChatMessage("tool", tool_output, None)>>

\* a push that keeps only the first tool call of the assistant message
PushedMessages_FirstCallOnly(resp, tool_output) ==
    <<ChatMessage("assistant", resp.message.content,
                  IF IsSome(resp.message.tool_calls) /\ resp.message.tool_calls.v # << >>
                  THEN Some(<<Head(resp.message.tool_calls.v)>>)
                  ELSE resp.message.tool_calls),
      ChatMessage("tool", tool_output, None)>>

\* the two messages pushed after a successful tool call
PushedMessages(resp, tool_output) ==
    <<ChatMessage("assistant", resp.message.content, resp.message.tool_calls),
      ChatMessage("tool", tool_output, None)>>

\* the HttpResponses of handle_chat
HttpResponse(status, response) == [status |-> status, body |-> [response |-> response]]
\* mutant: the failure is reported as the client's error, without its message
InternalServerError_BadRequest(e) == HttpResponse(400, <<"Error: ", "bad request">>)

InternalServerError(e) == HttpResponse(500, <<"Error: ">> \o e)
\* mutant: `response` keeps its initial String::new()
HttpOk_Empty(response) == HttpResponse(200, << >>)

HttpOk(response) == HttpResponse(200, response)

\* the backend behaviours drawn from for a chat call
BackendsNow == IF other = None THEN Backends ELSE ConcBackends

Init ==
    /\ system_prompt \in SystemPrompts
    /\ pc = "idle"
    /\ req = None
    /\ messages = << >>
    /\ chat_response = None
    /\ http = None
    /\ chatLog = << >>
    /\ toolLog = << >>
    /\ other = None
    /\ call = None

\* a handle_chat that starts from a transcript kept in the shared handler
HandleChat_SharedTranscript ==
    /\ pc = "idle"
    /\ \E r \in Requests, now \in Times :
         /\ req' = Some(r)
         /\ messages' = (IF other = None THEN << >> ELSE other.messages)
                         \o SeedMessages(r.message, now)
    /\ pc' = "AwaitingModel"
    /\ chat_response' = None
    /\ http' = None
    /\ chatLog' = << >>
    /\ toolLog' = << >>
    /\ UNCHANGED <<system_prompt, aux>>

\* handle_chat is entered: lines up to the first iteration of the loop
HandleChat ==
    /\ pc = "idle"
    /\ \E r \in Requests, now \in Times :
         /\ req' = Some(r)
         /\ messages' = SeedMessages(r.message, now)
    /\ pc' = "AwaitingModel"
    /\ chat_response' = None
    /\ http' = None
    /\ chatLog' = << >>
    /\ toolLog' = << >>
    /\ UNCHANGED <<system_prompt, aux>>

\* mutant: a failed OllamaClient::chat call is retried
Chat_Retry ==
    /\ pc = "AwaitingModel"
    /\ Len(chatLog) < MaxChatCalls
    /\ \E backend \in BackendsNow :
         LET r == chat(backend)
         IN /\ chatLog' = Append(chatLog, [messages |-> messages, model |-> req.v.model,
                                           tools |-> Tools, result |-> r])
            /\ IF IsOk(r)
               THEN /\ chat_response' = Some(r.v)
                    /\ pc' = "ProcessingToolCalls"
               ELSE /\ chat_response' = None
                    /\ pc' = "AwaitingModel"
    /\ UNCHANGED <<system_prompt, req, messages, toolLog, http, aux>>

\* a chat call that sends only the two latest messages
Chat_Window ==
    /\ pc = "AwaitingModel"
    /\ Len(chatLog) < MaxChatCalls
    /\ \E backend \in BackendsNow :
         LET r == chat(backend)
         IN /\ chatLog' = Append(chatLog,
                                 [messages |-> SubSeq(messages, Len(messages) - 1, Len(messages)),
                                  model |-> req.v.model,
                                  tools |-> Tools, result |-> r])
            /\ IF IsOk(r)
               THEN /\ chat_response' = Some(r.v)
                    /\ pc' = "ProcessingToolCalls"
                    /\ UNCHANGED http
               ELSE /\ chat_response' = None
                    /\ pc' = "Failed"
                    /\ http' = Some(InternalServerError(r.e))
    /\ UNCHANGED <<system_prompt, req, messages, toolLog, aux>>

\* a loop that gives up after one tool round
Chat_RoundCeiling ==
    /\ pc = "AwaitingModel"
    /\ Len(chatLog) < MaxChatCalls
    /\ IF Len(chatLog) >= 1
       THEN /\ pc' = "Failed"
            /\ http' = Some(InternalServerError(<<"too many tool rounds">>))
            /\ UNCHANGED <<chatLog, chat_response>>
       ELSE \E backend \in BackendsNow :
              LET r == chat(backend)
              IN /\ chatLog' = Append(chatLog, [messages |-> messages, model |-> req.v.model,
                                                tools |-> Tools, result |-> r])
                 /\ IF IsOk(r)
                    THEN /\ chat_response' = Some(r.v)
                         /\ pc' = "ProcessingToolCalls"
                         /\ UNCHANGED http
                    ELSE /\ chat_response' = None
                         /\ pc' = "Failed"
                         /\ http' = Some(InternalServerError(r.e))
    /\ UNCHANGED <<system_prompt, req, messages, toolLog, aux>>

\* one OllamaClient::chat call of the loop and the match on its result
Chat ==
    /\ pc = "AwaitingModel"
    /\ Len(chatLog) < MaxChatCalls
    /\ \E backend \in BackendsNow :
         LET r == chat(backend)
         IN /\ chatLog' = Append(chatLog, [messages |-> messages, model |-> req.v.model,
                                           tools |-> Tools, result |-> r])
            /\ IF IsOk(r)
               THEN /\ chat_response' = Some(r.v)
                    /\ pc' = "ProcessingToolCalls"
                    /\ UNCHANGED http
               ELSE /\ chat_response' = None
                    /\ pc' = "Failed"
                    /\ http' = Some(InternalServerError(r.e))
    /\ UNCHANGED <<system_prompt, req, messages, toolLog, aux>>

\* mutant: a tool error is pushed as the tool message and the loop continues
MatchToolResult_FeedBack(result) ==
    /\ IF IsOk(result)
       THEN IF IsSome(result.v)
            THEN /\ messages' = messages \o PushedMessages(chat_response.v, result.v.v[2])
                 /\ pc' = "AwaitingModel"
                 /\ UNCHANGED http
            ELSE /\ http' = Some(HttpOk(chat_response.v.message.content))
                 /\ pc' = "Done"
                 /\ UNCHANGED messages
       ELSE /\ messages' = messages \o PushedMessages(chat_response.v, result.e)
            /\ pc' = "AwaitingModel"
            /\ UNCHANGED http
    /\ chat_response' = None
    /\ UNCHANGED <<system_prompt, req, chatLog, aux>>

\* a match that pushes the two new messages in front of the transcript
MatchToolResult_Prepend(result) ==
    /\ IF IsOk(result)
       THEN IF IsSome(result.v)
            THEN /\ messages' = PushedMessages(chat_response.v, result.v.v[2]) \o messages
                 /\ pc' = "AwaitingModel"
                 /\ UNCHANGED http
            ELSE /\ http' = Some(HttpOk(chat_response.v.message.content))
                 /\ pc' = "Done"
                 /\ UNCHANGED messages
       ELSE /\ http' = Some(InternalServerError(result.e))
            /\ pc' = "Failed"
            /\ UNCHANGED messages
    /\ chat_response' = None
    /\ UNCHANGED <<system_prompt, req, chatLog, aux>>

\* a match that goes round the loop again when no tool was dispatched
MatchToolResult_NoBreak(result) ==
    /\ IF IsOk(result)
       THEN IF IsSome(result.v)
            THEN /\ messages' = messages \o PushedMessages(chat_response.v, result.v.v[2])
                 /\ pc' = "AwaitingModel"
                 /\ UNCHANGED http
            ELSE /\ pc' = "AwaitingModel"
                 /\ UNCHANGED <<messages, http>>
       ELSE /\ http' = Some(InternalServerError(result.e))
            /\ pc' = "Failed"
            /\ UNCHANGED messages
    /\ chat_response' = None
    /\ UNCHANGED <<system_prompt, req, chatLog, aux>>

\* a match that appends the final assistant message before breaking
MatchToolResult_PushFinal(result) ==
    /\ IF IsOk(result)
       THEN IF IsSome(result.v)
            THEN /\ messages' = messages \o PushedMessages(chat_response.v, result.v.v[2])
                 /\ pc' = "AwaitingModel"
                 /\ UNCHANGED http
            ELSE /\ http' = Some(HttpOk(chat_response.v.message.content))
                 /\ pc' = "Done"
                 /\ messages' = Append(messages,
                                       ChatMessage("assistant", chat_response.v.message.content,
                                                   chat_response.v.message.tool_calls))
       ELSE /\ http' = Some(InternalServerError(result.e))
            /\ pc' = "Failed"
            /\ UNCHANGED messages
    /\ chat_response' = None
    /\ UNCHANGED <<system_prompt, req, chatLog, aux>>

\* the match on the result of process_tool_calls
MatchToolResult(result) ==
    /\ IF IsOk(result)
       THEN IF IsSome(result.v)
            THEN /\ messages' = messages \o PushedMessages(chat_response.v, result.v.v[2])
                 /\ pc' = "AwaitingModel"
                 /\ UNCHANGED http
            ELSE /\ http' = Some(HttpOk(chat_response.v.message.content))
                 /\ pc' = "Done"
                 /\ UNCHANGED messages
       ELSE /\ http' = Some(InternalServerError(result.e))
            /\ pc' = "Failed"
            /\ UNCHANGED messages
    /\ chat_response' = None
    /\ UNCHANGED <<system_prompt, req, chatLog, aux>>

\* process_tool_calls invokes no capability
ProcessNoTool ==
    /\ pc = "ProcessingToolCalls"
    /\ Dispatched(chat_response.v) = 0
    /\ MatchToolResult(process_tool_calls(chat_response.v, None))
    /\ UNCHANGED toolLog

\* a dispatch that invokes the capability a second time before returning
ProcessTool_Twice(tool, Envs) ==
    /\ Dispatched(chat_response.v) # 0
    /\ LET i == Dispatched(chat_response.v)
       IN /\ Arm(chat_response.v.message.tool_calls.v[i]) = tool
          /\ \E env \in Envs :
               LET entry == [call |-> Len(chatLog),
                             inv |-> Invocation(chat_response.v, i),
                             env |-> env,
                             result |-> CapabilityResult(chat_response.v, i, env)]
               IN /\ toolLog' = Append(Append(toolLog, entry), entry)
                  /\ MatchToolResult(process_tool_calls(chat_response.v, env))

\* process_tool_calls invokes the capability `tool`, the environment doing one
\* of Envs, and handle_chat matches on the result
ProcessTool(tool, Envs) ==
    /\ Dispatched(chat_response.v) # 0
    /\ LET i == Dispatched(chat_response.v)
       IN /\ Arm(chat_response.v.message.tool_calls.v[i]) = tool
          /\ \E env \in Envs :
               /\ toolLog' = Append(toolLog, [call |-> Len(chatLog),
                                              inv |-> Invocation(chat_response.v, i),
                                              env |-> env,
                                              result |-> CapabilityResult(chat_response.v, i, env)])
               /\ MatchToolResult(process_tool_calls(chat_response.v, env))

\* process_tool_calls reaches the websearch arm
ProcessWebsearch ==
    /\ pc = "ProcessingToolCalls"
    /\ ProcessTool("websearch", Fetches)

\* process_tool_calls reaches the python_invoker arm
ProcessPython ==
    /\ pc = "ProcessingToolCalls"
    /\ ProcessTool("python_invoker", Procs)

Next == HandleChat \/ Chat \/ ProcessNoTool \/ ProcessWebsearch \/ ProcessPython

Spec == Init /\ [][Next]_vars

----------------------------------------------------------------------------
(* two requests served by the same web::Data<QueryHandler>                 *)

\* the request whose handle_chat is running, as a record
Self ==
    [id |-> 3 - other.id, pc |-> pc, req |-> req, messages |-> messages,
     chat_response |-> chat_response, http |-> http,
     chatLog |-> chatLog, toolLog |-> toolLog]

\* the server has been handed two requests; neither has entered handle_chat
InitConc ==
    /\ system_prompt \in SystemPrompts
    /\ pc = "idle"
    /\ req = None
    /\ messages = << >>
    /\ chat_response = None
    /\ http = None
    /\ chatLog = << >>
    /\ toolLog = << >>
    /\ other = [id |-> 2, pc |-> "idle", req |-> None, messages |-> << >>,
                chat_response |-> None, http |-> None,
                chatLog |-> << >>, toolLog |-> << >>]
    /\ call = None

\* the running request is suspended (at an .await, or by the scheduler of
\* another worker) and the other request's handle_chat runs
Yield ==
    /\ other # None
    /\ other' = Self
    /\ pc' = other.pc
    /\ req' = other.req
    /\ messages' = other.messages
    /\ chat_response' = other.chat_response
    /\ http' = other.http
    /\ chatLog' = other.chatLog
    /\ toolLog' = other.toolLog
    /\ UNCHANGED <<system_prompt, call>>

NextConc == HandleChat \/ Chat \/ ProcessNoTool \/ ProcessWebsearch \/ ProcessPython \/ Yield

SpecConc == InitConc /\ [][NextConc]_vars

----------------------------------------------------------------------------
(* single calls of WebSearchClient::search and of the websearch arm        *)

\* the sequences of elements of S of length at most n
SeqsUpTo(S, n) == UNION {[1..m -> S] : m \in 0..n}

\* the `.result` elements of a page: with title, snippet and href; without
\* href; with an empty href; without title link; without snippet
UpstreamElems == {ElemA, ElemB, ElemNoHref, ElemEmptyHref, ElemNoTitle, ElemNoSnippet}

\* the calls search(query, count): the upstream fails or returns a page
SearchCalls ==
    {[fn |-> "search", fetch |-> f, count |-> c, out |-> None] :
        f \in {[t |-> "neterr", e |-> <<"operation timed out">>]}
               \cup {[t |-> "page", elems |-> es] : es \in SeqsUpTo(UpstreamElems, MaxUpstream)},
        c \in 0..(MaxUpstream + 1)}

\* the values of a `count` argument: integers, negative integers, numbers
\* with a fraction (2.5, 3.0, -1.5), and values that are not numbers
CountValues ==
    {JInt(0), JInt(1), JInt(3), JInt(5), JInt(7), JInt(-1), JInt(-3),
     JFloat(2, 5), JFloat(3, 0), JFloat(-1, 5),
     JStr(<<"3">>), JNull, JBool(TRUE), JArr(<<JInt(3)>>), JObj([count |-> JInt(3)])}

\* the arguments of a websearch tool call: a query, and a count or none
CountArgs ==
    {JObj([query |-> JStr(<<"news">>)])}
    \cup {JObj([query |-> JStr(<<"news">>), count |-> v]) : v \in CountValues}

\* a page of seven results
SevenResults == <<ElemA, ElemB, ElemA, ElemB, ElemA, ElemB, ElemA>>

\* the calls process_tool_calls(chat_response) for a response with one
\* websearch tool call, the upstream failing or returning seven results
ArmCalls ==
    {[fn |-> "websearch arm", args |-> a, fetch |-> f, out |-> None] :
        a \in CountArgs,
        f \in {[t |-> "neterr", e |-> <<"operation timed out">>],
               [t |-> "page", elems |-> SevenResults]}}

\* one call of search or of process_tool_calls is about to be made
InitPure ==
    /\ system_prompt \in SystemPrompts
    /\ pc = "idle"
    /\ req = None
    /\ messages = << >>
    /\ chat_response = None
    /\ http = None
    /\ chatLog = << >>
    /\ toolLog = << >>
    /\ other = None
    /\ call \in SearchCalls \cup ArmCalls

\* WebSearchClient::search is called and returns
CallSearch ==
    /\ call # None
    /\ call.fn = "search"
    /\ call.out = None
    /\ call' = [call EXCEPT !.out = Some(search(call.fetch, call.count))]
    /\ UNCHANGED <<system_prompt, pc, req, messages, chat_response, http,
                   chatLog, toolLog, other>>

\* process_tool_calls is called with one websearch tool call and returns:
\* the count it hands to search, and its result
CallWebsearchArm ==
    /\ call # None
    /\ call.fn = "websearch arm"
    /\ call.out = None
    /\ LET resp == ChatResponse(ChatMessage("assistant", << >>,
                                            Some(<<ToolCall("websearch", call.args)>>)))
       IN call' = [call EXCEPT !.out = Some([count |-> Invocation(resp, 1).count,
                                             result |-> process_tool_calls(resp, call.fetch)])]
    /\ UNCHANGED <<system_prompt, pc, req, messages, chat_response, http,
                   chatLog, toolLog, other>>

NextPure == CallSearch \/ CallWebsearchArm

SpecPure == InitPure /\ [][NextPure]_vars

\* every .await of handle_chat returns: the gateway call and the capability
\* invocation the loop is waiting for complete, and the loop goes on
FairSpec == Spec /\ WF_vars(Next)

----------------------------------------------------------------------------
(* Vocabulary of the properties                                            *)

\* the j-th gateway call returned an Assistant turn
ChatOkAt(j) == j \in 1..Len(chatLog) /\ IsOk(chatLog[j].result)

\* the Assistant turn returned by the j-th gateway call
TurnAt(j) == chatLog[j].result.v.message

\* the tool requests of a turn, << >> when it has none
Requests_(turn) == IF IsSome(turn.tool_calls) THEN turn.tool_calls.v ELSE << >>

ToolFree(turn) == Requests_(turn) = << >>

\* a tool request names one of the two capabilities
Recognized(tc) == tc.function.name \in {"websearch", "python_invoker"}

\* the required argument of a recognized tool request
RequiredKey(tc) == IF tc.function.name = "websearch" THEN "query" ELSE "script"

\* a recognized tool request carries its required argument as a string
WellFormed(tc) ==
    /\ Recognized(tc)
    /\ tc.function.arguments.t = "obj"
    /\ RequiredKey(tc) \in DOMAIN tc.function.arguments.v
    /\ tc.function.arguments.v[RequiredKey(tc)].t = "str"

\* the capability invocations made for the j-th gateway call's turn
InvocationsAt(j) == {k \in 1..Len(toolLog) : toolLog[k].call = j}

\* the request has returned
Returned == pc \in {"Done", "Failed"}

----------------------------------------------------------------------------
(* C1: when the first gateway response is an Assistant turn without tool   *)
(* requests, handle_chat makes exactly one gateway call, invokes no        *)
(* capability and returns 200 with that turn's content as `response`.      *)
C1_ToolFreeFirstTurn ==
    (ChatOkAt(1) /\ ToolFree(TurnAt(1))) =>
        /\ Len(chatLog) = 1
        /\ toolLog = << >>
        /\ pc \in {"ProcessingToolCalls", "Done"}
        /\ pc = "Done" =>
             /\ IsSome(http)
             /\ http.v.status = 200
             /\ http.v.body.response = TurnAt(1).content

C1_Witness ==
    /\ pc = "Done"
    /\ ChatOkAt(1) /\ ToolFree(TurnAt(1))
    /\ TurnAt(1).content = <<"answer">>
    /\ http.v.body.response = <<"answer">>

----------------------------------------------------------------------------
(* C2: in a run where every turn so far carried either no tool request or  *)
(* a single recognized, well-formed one that was dispatched successfully,  *)
(* the transcript has 2 + 2k turns after k completed tool rounds, round k  *)
(* having added one Assistant turn and one tool turn, and the final answer *)
(* is returned after exactly N + 1 gateway calls for N tool rounds.        *)
SingleRequestRun ==
    /\ pc \notin {"idle", "Failed"}
    /\ \A j \in 1..Len(chatLog) :
         /\ ChatOkAt(j)
         /\ \/ ToolFree(TurnAt(j))
            \/ Len(Requests_(TurnAt(j))) = 1 /\ WellFormed(Requests_(TurnAt(j))[1])

C2_TwoTurnsPerRound ==
    SingleRequestRun =>
        /\ Len(messages) = 2 + 2 * Len(toolLog)
        /\ \A k \in 1..Len(toolLog) :
             /\ messages[2 * k + 1].role = "assistant"
             /\ messages[2 * k + 2].role = "tool"
        /\ pc = "AwaitingModel" => Len(chatLog) = Len(toolLog)
        /\ pc = "ProcessingToolCalls" => Len(chatLog) = Len(toolLog) + 1
        /\ pc = "Done" =>
             /\ Len(chatLog) = Len(toolLog) + 1
             /\ ToolFree(TurnAt(Len(chatLog)))
             /\ http.v.body.response = TurnAt(Len(chatLog)).content

C2_Witness ==
    /\ SingleRequestRun
    /\ pc = "Done"
    /\ Len(toolLog) = MaxChatCalls - 1
    /\ Len(chatLog) = MaxChatCalls
    /\ Len(messages) = 2 * MaxChatCalls

----------------------------------------------------------------------------
----------------------------------------------------------------------------
(* C4: a turn whose first tool request names a recognized capability but   *)
(* lacks its required string argument ends the request as a failure: no    *)
(* capability is invoked for that turn and the request does not end with a *)
(* final answer.                                                           *)
C4_MalformedIsFailure ==
    \A j \in 1..Len(chatLog) :
        (/\ ChatOkAt(j)
         /\ ~ToolFree(TurnAt(j))
         /\ Recognized(Requests_(TurnAt(j))[1])
         /\ ~WellFormed(Requests_(TurnAt(j))[1])) =>
            /\ j = Len(chatLog)
            /\ InvocationsAt(j) = {}
            /\ pc \in {"ProcessingToolCalls", "Failed"}

----------------------------------------------------------------------------
(* C5: a gateway call that fails is the last step of the request: the      *)
(* request is Failed, no gateway call and no capability invocation follows *)
(* it, and the transcript is the one that call was made with.              *)
C5_GatewayFailureIsTerminal ==
    \A j \in 1..Len(chatLog) :
        ~IsOk(chatLog[j].result) =>
            /\ j = Len(chatLog)
            /\ pc = "Failed"
            /\ \A k \in 1..Len(toolLog) : toolLog[k].call < j
            /\ messages = chatLog[j].messages
            /\ Len(messages) = 2 * j

C5_Witness ==
    /\ Len(chatLog) = 2
    /\ IsOk(chatLog[1].result)
    /\ ~IsOk(chatLog[2].result)
    /\ pc = "Failed"
    /\ Len(toolLog) = 1

----------------------------------------------------------------------------
(* C6: a capability invocation that returns a failure is the last step of  *)
(* the request: the request is Failed, neither the Assistant turn nor a    *)
(* tool turn of that round is in the transcript, and no gateway call       *)
(* follows, so no gateway call ever receives the tool error.               *)
C6_CapabilityFailureIsTerminal ==
    \A k \in 1..Len(toolLog) :
        ~IsOk(toolLog[k].result) =>
            /\ k = Len(toolLog)
            /\ pc = "Failed"
            /\ toolLog[k].call = Len(chatLog)
            /\ messages = chatLog[Len(chatLog)].messages
            /\ Len(messages) = 2 * Len(chatLog)
            /\ \A j \in 1..Len(chatLog) :
                 \A m \in 1..Len(chatLog[j].messages) :
                     ~Contains(chatLog[j].messages[m].content, toolLog[k].result.e)

C6_Witness ==
    /\ Len(toolLog) = 2
    /\ IsOk(toolLog[1].result)
    /\ ~IsOk(toolLog[2].result)
    /\ toolLog[1].inv.tool = "websearch"
    /\ toolLog[2].inv.tool = "python_invoker"
    /\ pc = "Failed"

----------------------------------------------------------------------------
(* C7: a tool request with an unrecognized name never invokes a capability *)
(* and a turn whose tool requests are all unrecognized is handled like a   *)
(* tool-free turn: the request is Done with that turn's content (possibly  *)
(* empty) as the answer, nothing is appended to the transcript and no      *)
(* gateway call follows.                                                   *)
AllUnrecognized(turn) ==
    /\ ~ToolFree(turn)
    /\ \A q \in 1..Len(Requests_(turn)) : ~Recognized(Requests_(turn)[q])

C7_UnrecognizedIsIgnored ==
    /\ \A k \in 1..Len(toolLog) :
         Recognized(Requests_(TurnAt(toolLog[k].call))[toolLog[k].inv.pos])
    /\ \A j \in 1..Len(chatLog) :
         (ChatOkAt(j) /\ AllUnrecognized(TurnAt(j))) =>
            /\ j = Len(chatLog)
            /\ InvocationsAt(j) = {}
            /\ pc \in {"ProcessingToolCalls", "Done"}
            /\ messages = chatLog[j].messages
            /\ pc = "Done" =>
                 /\ http.v.status = 200
                 /\ http.v.body.response = TurnAt(j).content

C7_Witness ==
    /\ pc = "Done"
    /\ Len(chatLog) = 2
    /\ AllUnrecognized(TurnAt(2))
    /\ Len(Requests_(TurnAt(2))) = 2
    /\ TurnAt(2).content = << >>
    /\ http.v.body.response = << >>

----------------------------------------------------------------------------
(* The python_invoker invocations of the request                           *)
PythonRuns == {k \in 1..Len(toolLog) : toolLog[k].inv.tool = "python_invoker"}

\* the script ran and its exit status is not success: a non-zero code, or no
\* code at all
ExitNotSuccess(proc) ==
    proc.t = "exit" /\ (proc.code = None \/ (proc.code # None /\ proc.code.v # 0))

\* a failure of run_script ends the request and is not fed back to the model
FailureEndsRequest(k) ==
    /\ k = Len(toolLog)
    /\ pc = "Failed"
    /\ http.v.status = 500
    /\ Contains(http.v.body.response, toolLog[k].result.e)
    /\ toolLog[k].call = Len(chatLog)
    /\ messages = chatLog[Len(chatLog)].messages

(* C8, as stated: run_script returns a failure if and only if the script's *)
(* exit status is not success, and the failure's message contains the exit *)
(* code, stdout and stderr.                                                *)
C8_FailureIffExitNotSuccess ==
    \A k \in PythonRuns :
        /\ ~IsOk(toolLog[k].result) <=> ExitNotSuccess(toolLog[k].env)
        /\ ~IsOk(toolLog[k].result) =>
             /\ toolLog[k].env.t = "exit"
             /\ Contains(toolLog[k].result.e, toolLog[k].env.stdout)

(* C8, amended: when python3 could be started, run_script returns a        *)
(* failure if and only if the exit status is not success, the failure's    *)
(* message contains the exit code, stdout and stderr, and a success        *)
(* carries the same three fields; when python3 could not be started,       *)
(* run_script returns a failure that carries the OS error. Either failure  *)
(* ends the request as a failure and is not fed back to the model.         *)
C8_RunScriptResult ==
    \A k \in PythonRuns :
        LET proc == toolLog[k].env
            r == toolLog[k].result
        IN /\ proc.t = "exit" =>
                /\ ~IsOk(r) <=> ExitNotSuccess(proc)
                /\ ~IsOk(r) =>
                     /\ Contains(r.e, <<"Exit Code: ">> \o DebugOptI32(proc.code))
                     /\ Contains(r.e, <<"\nStdout: ">> \o proc.stdout)
                     /\ Contains(r.e, <<"\nStderr: ">> \o proc.stderr)
                /\ IsOk(r) =>
                     /\ r.v.exit_code = proc.code
                     /\ r.v.stdout = proc.stdout
                     /\ r.v.stderr = proc.stderr
           /\ proc.t = "spawnerr" => (~IsOk(r) /\ Contains(r.e, proc.e))
           /\ ~IsOk(r) => FailureEndsRequest(k)

C8_Witness ==
    \E k \in PythonRuns :
        /\ k = 2
        /\ toolLog[k].env.t = "exit"
        /\ toolLog[k].env.code = Some(1)
        /\ ~IsOk(toolLog[k].result)
        /\ pc = "Failed"

----------------------------------------------------------------------------
(* C9: a websearch with count 0, or whose page has no usable result among  *)
(* the entries it looks at, succeeds with an empty text: the Assistant     *)
(* turn and a tool turn with empty content are appended and the loop goes  *)
(* on to the next gateway call, which receives them.                       *)
Usable(elem) ==
    /\ elem.title_elem # None
    /\ elem.snippet_elem # None
    /\ elem.title_elem.v.href # None
    /\ elem.title_elem.v.href.v # << >>

NothingFound(k) ==
    /\ toolLog[k].inv.tool = "websearch"
    /\ toolLog[k].env.t = "page"
    /\ \/ toolLog[k].inv.count = 0
       \/ \A q \in 1..Len(toolLog[k].env.elems) : ~Usable(toolLog[k].env.elems[q])

C9_NothingFoundIsSuccess ==
    \A k \in 1..Len(toolLog) :
        NothingFound(k) =>
            LET j == toolLog[k].call
            IN /\ toolLog[k].result = Ok(<< >>)
               /\ Len(messages) >= 2 * j + 2
               /\ messages[2 * j + 1] = TurnAt(j)
               /\ messages[2 * j + 2] = ChatMessage("tool", << >>, None)
               /\ IF j = Len(chatLog)
                  THEN pc = "AwaitingModel"
                  ELSE chatLog[j + 1].messages = SubSeq(messages, 1, 2 * j + 2)

C9_Witness ==
    /\ Len(chatLog) = 2
    /\ Len(toolLog) >= 1
    /\ toolLog[1].inv.tool = "websearch"
    /\ toolLog[1].inv.count = 0
    /\ toolLog[1].env.t = "page"
    /\ \E q \in 1..Len(toolLog[1].env.elems) : Usable(toolLog[1].env.elems[q])
    /\ chatLog[2].messages[4].content = << >>

----------------------------------------------------------------------------
(* C10: a request that failed returns a 5xx response whose body contains   *)
(* the message of the gateway or capability failure, a request that        *)
(* succeeded returns 200, the body has the single field `response`, which  *)
(* holds the final answer or a text that starts with "Error: " and         *)
(* contains the failure message, and no response exists before the request *)
(* returns.                                                                *)
\* the message of the failure that ended the request
FailureMessage ==
    IF ~IsOk(chatLog[Len(chatLog)].result)
    THEN chatLog[Len(chatLog)].result.e
    ELSE toolLog[Len(toolLog)].result.e

C10_ResponseShape ==
    /\ ~Returned <=> http = None
    /\ Returned => DOMAIN http.v.body = {"response"}
    /\ pc = "Failed" =>
         /\ http.v.status \in 500..599
         /\ FailureMessage # << >>
         /\ Contains(http.v.body.response, FailureMessage)
         /\ Head(http.v.body.response) = "Error: "
    /\ pc = "Done" =>
         /\ http.v.status = 200
         /\ http.v.body.response = TurnAt(Len(chatLog)).content

C10_Witness ==
    /\ pc = "Failed"
    /\ Len(toolLog) = 1
    /\ toolLog[1].env.t = "neterr"
    /\ http.v.status = 500
    /\ http.v.body.response =
         <<"Error: ", "Web search failed: ", "Network error: ", "operation timed out">>

\* ---------------------------------------------------------------------------
\* C11

\* the transcript before the step is the beginning of the transcript after it
KeepsTurns == /\ Len(messages') >= Len(messages)
              /\ SubSeq(messages', 1, Len(messages)) = messages

\* the step is a gateway call
GatewayCallStep == Len(chatLog') = Len(chatLog) + 1

\* C11: the transcript is append-only.  Every step leaves the transcript as it
\* was or adds exactly two turns at its end, the turns already there keeping
\* their value and their place; a gateway call leaves the transcript unchanged;
\* and the transcript the first gateway call is made with is the System turn
\* followed by the User turn carrying the request's message.
C11_AppendOnly ==
    [][ /\ KeepsTurns
        /\ Len(messages') \in {Len(messages), Len(messages) + 2}
        /\ GatewayCallStep =>
              /\ messages' = messages
              /\ chatLog'[Len(chatLog')].messages = messages
              /\ Len(messages) >= 2
              /\ messages[1].role = "system"
              /\ messages[2].role = "user"
              /\ messages[2].content = req.v.message ]_vars

\* a second gateway call has been made, with a transcript that grew by two
\* turns after the first call and still begins with the first call's
\* transcript
C11_Witness ==
    /\ Len(chatLog) = 2
    /\ Len(messages) = 4
    /\ chatLog[2].messages = messages
    /\ SubSeq(messages, 1, 2) = chatLog[1].messages

\* ---------------------------------------------------------------------------
\* C12

\* the capability invocations that succeeded
Dispatches == {k \in 1..Len(toolLog) : IsOk(toolLog[k].result)}

RECURSIVE RenderedResults(_)
\* search results rendered one after the other, a newline between two of them
RenderedResults(results) ==
    IF results = << >> THEN << >>
    ELSE LET r == Head(results)
             one == <<"Title: ">> \o r.title \o <<"\nURL: ">> \o r.url
                    \o <<"\nContent: ">> \o r.content \o <<"\n---">>
         IN IF Len(results) = 1 THEN one
            ELSE one \o <<"\n">> \o RenderedResults(Tail(results))

\* the rendered outcome of a successful capability invocation
RenderedEntry(entry) ==
    LET out == entry.result.v
    IN IF entry.inv.tool = "websearch"
       THEN RenderedResults(out)
       ELSE <<"Exit Code: ">>
            \o (IF IsSome(out.exit_code)
                THEN <<"Some(", ToString(out.exit_code.v), ")">> ELSE <<"None">>)
            \o <<"\nStdout: ">> \o out.stdout \o <<"\nStderr: ">> \o out.stderr

\* the rendered outcome of the successful capability invocation k
RenderedOutcome(k) == RenderedEntry(toolLog[k])

\* the transcript right after round j: the one the next gateway call was made
\* with, or the current one when no further call was made yet
TranscriptAfter(j) == IF j < Len(chatLog) THEN chatLog[j + 1].messages ELSE messages

\* C12: after a successful tool dispatch the transcript is the transcript of
\* the round's gateway call followed by exactly two turns: the Assistant turn
\* with the content and the complete tool-request list the gateway returned
\* (requests that were not dispatched included), then one tool turn whose
\* content is the rendered outcome of the dispatched request; the next
\* gateway call is made with the transcript that ends with these two turns.
C12_TurnsAfterDispatch ==
    \A k \in Dispatches :
        LET j == toolLog[k].call
        IN TranscriptAfter(j) =
              chatLog[j].messages
              \o << [role |-> "assistant", content |-> TurnAt(j).content,
                     tool_calls |-> TurnAt(j).tool_calls],
                    [role |-> "tool", content |-> RenderedOutcome(k),
                     tool_calls |-> None] >>

\* a second gateway call was made after a websearch that found something,
\* requested by a turn with content and two tool requests of which the
\* first was dispatched
C12_Witness ==
    /\ Len(chatLog) = 2
    /\ 1 \in Dispatches
    /\ toolLog[1].inv.tool = "websearch"
    /\ toolLog[1].inv.pos = 1
    /\ toolLog[1].result.v # << >>
    /\ Len(Requests_(TurnAt(1))) = 2
    /\ TurnAt(1).content # << >>
    /\ chatLog[2].messages[3].tool_calls = TurnAt(1).tool_calls

\* ---------------------------------------------------------------------------
\* C13

\* the names of the tool schemas gateway call j was made with, in order
SchemaNames(j) == [n \in 1..Len(chatLog[j].tools) |-> chatLog[j].tools[n].name]

\* C13: every gateway call of a request, in every round, is made with the
\* complete transcript of that moment (the seed and the two turns of every
\* round before it, which the transcript still begins with), with the model
\* identifier of the request, and with the same two tool schemas, websearch
\* then python_invoker, whatever the message and the earlier rounds were.
C13_GatewayCallArguments ==
    \A j \in 1..Len(chatLog) :
        /\ Len(chatLog[j].messages) = 2 * j
        /\ chatLog[j].messages = SubSeq(messages, 1, 2 * j)
        /\ j = Len(chatLog) /\ pc # "AwaitingModel" => chatLog[j].messages = messages
        /\ chatLog[j].model = req.v.model
        /\ SchemaNames(j) = <<"websearch", "python_invoker">>
        /\ chatLog[j].tools = chatLog[1].tools
        /\ \A n \in 1..2 : chatLog[j].tools[n].type = "function"

\* the second gateway call of the request for model qwen, made with the four
\* turns of the transcript
C13_Witness ==
    /\ Len(chatLog) = 2
    /\ req.v.model = "qwen"
    /\ chatLog[2].model = "qwen"
    /\ Len(chatLog[2].messages) = 4
    /\ pc = "ProcessingToolCalls"

\* ---------------------------------------------------------------------------
\* C14

\* no request of the turn can be dispatched
NoDispatchable(turn) ==
    \A q \in 1..Len(Requests_(turn)) : ~WellFormed(Requests_(turn)[q])

\* the gateway has just returned a turn with no dispatchable tool request
NoDispatchableReturned ==
    /\ pc = "ProcessingToolCalls"
    /\ NoDispatchable(chat_response.v.message)

\* some gateway call or some capability invocation of the request failed
SomeCallFailed ==
    \/ \E j \in 1..Len(chatLog) : ~IsOk(chatLog[j].result)
    \/ \E k \in 1..Len(toolLog) : ~IsOk(toolLog[k].result)

\* C14: when every gateway call and every capability invocation returns, a
\* request whose gateway returns a turn with no dispatchable tool request, or
\* one of whose calls fails, reaches Done or Failed; and a request reaches
\* Done or Failed for no other reason: a call of it failed, or the last turn
\* the gateway returned had no dispatchable tool request.
C14_Termination ==
    /\ (NoDispatchableReturned \/ SomeCallFailed) ~> Returned
    /\ [](Returned =>
            \/ SomeCallFailed
            \/ /\ ChatOkAt(Len(chatLog))
               /\ NoDispatchable(TurnAt(Len(chatLog))))

\* the request is Done after a round with a successful dispatch and a second
\* turn whose only requests cannot be dispatched
C14_Witness ==
    /\ pc = "Done"
    /\ Len(chatLog) = 2
    /\ ~SomeCallFailed
    /\ Requests_(TurnAt(2)) # << >>
    /\ NoDispatchable(TurnAt(2))

\* ---------------------------------------------------------------------------
\* C15

\* the two requests being served
BothRequests == {Self, other}

\* what a request is given: its message and model, and the responses to its
\* own gateway calls and capability invocations
InputsOf(s) ==
    <<s.req,
      [j \in 1..Len(s.chatLog) |-> s.chatLog[j].result],
      [k \in 1..Len(s.toolLog) |-> s.toolLog[k].env]>>

\* what a request has done: its transcript, its gateway calls, its result
OutputsOf(s) ==
    <<s.pc, s.messages, s.http,
      [j \in 1..Len(s.chatLog) |-> <<s.chatLog[j].messages, s.chatLog[j].model>>]>>

\* the transcript of request s is made of its own message and of the
\* responses to its own calls, and its result of its own last response
OwnTranscript(s) ==
    s.pc # "idle" =>
        /\ Len(s.messages) = 2 + 2 * Cardinality({k \in 1..Len(s.toolLog) :
                                                    IsOk(s.toolLog[k].result)})
        /\ s.messages[1].role = "system"
        /\ s.messages[2] = [role |-> "user", content |-> s.req.v.message,
                            tool_calls |-> None]
        /\ \A j \in 1..Len(s.chatLog) :
              /\ s.chatLog[j].messages = SubSeq(s.messages, 1, 2 * j)
              /\ s.chatLog[j].model = s.req.v.model
        /\ \A k \in 1..Len(s.toolLog) :
              IsOk(s.toolLog[k].result) =>
                  /\ s.messages[2 * k + 1].content = s.chatLog[k].result.v.message.content
                  /\ s.messages[2 * k + 2].content = RenderedEntry(s.toolLog[k])
        /\ s.pc = "Done" =>
              s.http.v.body.response = s.chatLog[Len(s.chatLog)].result.v.message.content

\* C15: two requests served by the same QueryHandler are independent under
\* every interleaving of their steps.  Each request's transcript, gateway
\* calls and result are made of its own message and model and of the
\* responses to its own calls, and two requests given the same that stand at
\* the same point of the loop, or have both returned, are in the same state;
\* a step of one request leaves the other request as it was, a
\* switch from one request to the other changes neither, and no step
\* changes the handler (its system prompt).
C15_RequestsIndependent ==
    /\ [](\A s \in BothRequests : OwnTranscript(s))
    /\ [](/\ InputsOf(Self) = InputsOf(other)
          /\ \/ pc = other.pc
             \/ Returned /\ other.pc \in {"Done", "Failed"}
          => OutputsOf(Self) = OutputsOf(other))
    /\ [][ /\ system_prompt' = system_prompt
           /\ other'.id = other.id => other' = other
           /\ other'.id # other.id => other' = Self /\ Self' = other ]_vars

\* both requests, for different messages and models, are past their first
\* round, each with a second gateway call made while the other was suspended
C15_Witness ==
    /\ other # None
    /\ Len(chatLog) = 2
    /\ Len(other.chatLog) = 2
    /\ Len(messages) = 4
    /\ Len(other.messages) = 4
    /\ req.v.message # other.req.v.message
    /\ req.v.model # other.req.v.model
    /\ messages[4] # other.messages[4]

\* ---------------------------------------------------------------------------
\* C16

\* the turn holds a recognized tool request with its required argument
HasDispatchable(turn) ==
    \E q \in 1..Len(Requests_(turn)) : WellFormed(Requests_(turn)[q])

\* in every round so far the gateway returned a turn with a recognized
\* well-formed tool request, and every dispatch so far succeeded
EveryRoundDispatched ==
    /\ pc # "idle"
    /\ \A j \in 1..Len(chatLog) : ChatOkAt(j) /\ HasDispatchable(TurnAt(j))
    /\ \A k \in 1..Len(toolLog) : IsOk(toolLog[k].result)

\* C16: there is no round ceiling.  For every number k of rounds (up to
\* MaxChatCalls, the number of gateway calls the model follows), when the
\* gateway returned a recognized well-formed tool request in each of the
\* first k rounds and each was dispatched successfully, the request has
\* reached neither Done nor Failed: after the k rounds the loop is back at
\* the gateway call with k invocations made and the transcript extended k
\* times, and the (k+1)-th gateway call can be made.
C16_NoRoundCeiling ==
    EveryRoundDispatched =>
        /\ ~Returned
        /\ pc = "AwaitingModel" =>
              /\ Len(toolLog) = Len(chatLog)
              /\ Len(messages) = 2 + 2 * Len(chatLog)
              /\ Len(chatLog) < MaxChatCalls => ENABLED Chat

\* MaxChatCalls rounds, each with a successful dispatch, and the loop is
\* still running
C16_Witness ==
    /\ EveryRoundDispatched
    /\ Len(chatLog) = MaxChatCalls
    /\ Len(toolLog) = MaxChatCalls
    /\ pc = "AwaitingModel"

\* ---------------------------------------------------------------------------
\* C17

\* the request capability invocation k was made for
RequestOf(k) == Requests_(TurnAt(toolLog[k].call))[toolLog[k].inv.pos]

\* C17: the steps of one request are sequential and alternate.  A step is a
\* gateway call made while the loop awaits the model, or one capability
\* invocation made while it processes a returned turn, never both.  The k-th
\* invocation is made for the response of the k-th gateway call, which had
\* completed successfully; no gateway call has two invocations; and a
\* further gateway call is made only after the invocation before it
\* completed successfully, with its outcome in the transcript.
C17_SequentialAlternation ==
    /\ [][ /\ chatLog' # chatLog =>
                /\ pc = "AwaitingModel"
                /\ Len(chatLog') = Len(chatLog) + 1
                /\ toolLog' = toolLog
           /\ toolLog' # toolLog =>
                /\ pc = "ProcessingToolCalls"
                /\ Len(toolLog') = Len(toolLog) + 1
                /\ chatLog' = chatLog ]_vars
    /\ [](\A k \in 1..Len(toolLog) :
            /\ toolLog[k].call = k
            /\ ChatOkAt(k)
            /\ toolLog[k].inv.pos \in 1..Len(Requests_(TurnAt(k)))
            /\ RequestOf(k).function.name = toolLog[k].inv.tool
            /\ k < Len(chatLog) =>
                  /\ IsOk(toolLog[k].result)
                  /\ chatLog[k + 1].messages[2 * k + 2].content = RenderedOutcome(k))
    /\ [](\A j \in 1..Len(chatLog) :
            /\ Cardinality(InvocationsAt(j)) <= 1
            /\ j < Len(chatLog) => Cardinality(InvocationsAt(j)) = 1)

\* gateway call, invocation, gateway call, invocation: two rounds done, the
\* second invocation a script run after a websearch in the first
C17_Witness ==
    /\ Len(chatLog) = 2
    /\ Len(toolLog) = 2
    /\ toolLog[1].inv.tool = "websearch"
    /\ toolLog[2].inv.tool = "python_invoker"
    /\ toolLog[2].call = 2
    /\ pc = "AwaitingModel"

\* ---------------------------------------------------------------------------
\* C18

\* the number of (Assistant, tool-result) pairs in the transcript
Pairs == (Len(messages) - 2) \div 2

\* C18: once the transcript is seeded it is System, User, then zero or more
\* (Assistant, tool-result) pairs.  Only Assistant turns carry tool requests;
\* the n-th Assistant turn is the turn the n-th gateway call returned, its
\* tool-request list is non-empty and one request of it was dispatched
\* successfully; a tool-result turn stands only right after such an
\* Assistant turn; and the turn that supplies the final answer is not in the
\* transcript: a Done request made one more gateway call than it has pairs.
C18_TranscriptShape ==
    pc # "idle" =>
        /\ Len(messages) >= 2
        /\ Len(messages) = 2 + 2 * Pairs
        /\ messages[1].role = "system" /\ messages[1].tool_calls = None
        /\ messages[2].role = "user" /\ messages[2].tool_calls = None
        /\ \A n \in 1..Pairs :
              LET a == messages[2 * n + 1]
                  t == messages[2 * n + 2]
              IN /\ a.role = "assistant"
                 /\ IsSome(a.tool_calls) /\ a.tool_calls.v # << >>
                 /\ ChatOkAt(n)
                 /\ a.content = TurnAt(n).content
                 /\ a.tool_calls = TurnAt(n).tool_calls
                 /\ n \in Dispatches
                 /\ toolLog[n].call = n
                 /\ toolLog[n].inv.pos \in 1..Len(a.tool_calls.v)
                 /\ t.role = "tool" /\ t.tool_calls = None
        /\ Pairs = Cardinality(Dispatches)
        /\ pc = "Done" =>
              /\ Len(chatLog) = Pairs + 1
              /\ Cardinality({n \in 1..Len(messages) : messages[n].role = "assistant"})
                    = Len(chatLog) - 1
              /\ NoDispatchable(TurnAt(Len(chatLog)))

\* a Done request whose transcript holds one pair while the gateway
\* returned two turns, the second one with content
C18_Witness ==
    /\ pc = "Done"
    /\ Len(chatLog) = 2
    /\ Len(messages) = 4
    /\ messages[3].role = "assistant"
    /\ messages[4].role = "tool"
    /\ TurnAt(2).content # << >>

\* ---------------------------------------------------------------------------
\* C19

\* the smaller of two numbers
Min(a, b) == IF a < b THEN a ELSE b

\* the positions, among the first `count` entries of the page, of the usable
\* entries: title link, snippet and non-empty URL all present
UsablePositions(elems, count) ==
    {i \in 1..Min(count, Len(elems)) : Usable(elems[i])}

\* the m-th smallest element of a set of numbers
MthOf(S, m) == CHOOSE i \in S : Cardinality({j \in S : j < i}) = m - 1

\* a call of search has returned for a page the upstream sent
SearchReturned ==
    /\ call # None
    /\ call.fn = "search"
    /\ call.out # None
    /\ call.fetch.t = "page"

\* C19: for every upstream result list and every count, search succeeds and
\* returns exactly the usable entries among the first `count` upstream
\* entries, in upstream order, with title and snippet trimmed: at most
\* `count` results, and an unusable entry among the first `count` is dropped
\* without a later upstream entry taking its place.
C19_UsableAmongFirstCount ==
    SearchReturned =>
        LET elems == call.fetch.elems
            at == UsablePositions(elems, call.count)
            r == call.out.v
        IN /\ IsOk(r)
           /\ Len(r.v) = Cardinality(at)
           /\ Len(r.v) <= call.count
           /\ \A m \in 1..Len(r.v) :
                 LET e == elems[MthOf(at, m)]
                 IN /\ r.v[m].url = e.title_elem.v.href.v
                    /\ r.v[m].title = Trim(e.title_elem.v.text)
                    /\ r.v[m].content = Trim(e.snippet_elem.v)

\* count 2 on a page whose first entry has no href: only A is returned, and
\* B, the third entry, does not take the place of the dropped one
C19_Witness ==
    /\ SearchReturned
    /\ call.fetch.elems = <<ElemNoHref, ElemA, ElemB>>
    /\ call.count = 2
    /\ IsOk(call.out.v)
    /\ Len(call.out.v.v) = 1
    /\ call.out.v.v[1].url = <<"http://a">>

\* ---------------------------------------------------------------------------
\* C20

\* process_tool_calls has returned for a websearch request
ArmReturned ==
    /\ call # None
    /\ call.fn = "websearch arm"
    /\ call.out # None

\* the request has a `count` argument that is a non-negative integer (a
\* number written without fraction or exponent, which is what serde_json
\* holds as an integer: 3.0 is a number with a fraction)
CountIsNonNegativeInteger ==
    /\ "count" \in DOMAIN call.args.v
    /\ call.args.v.count.t = "int"
    /\ call.args.v.count.v >= 0

\* the number of results rendered in a result text
Rendered(text) == Cardinality({i \in 1..Len(text) : text[i] = "Title: "})

\* C20: for a websearch request the count handed to search is the `count`
\* argument when that is a non-negative integer and 5 in every other case
\* (absent, negative, with a fraction, not a number); whatever `count` is,
\* the request is dispatched, and it fails only when the search itself
\* fails: on a page of seven results it succeeds with as many results as
\* the count allows.
C20_CountOrFive ==
    ArmReturned =>
        LET expected == IF CountIsNonNegativeInteger THEN call.args.v.count.v ELSE 5
            r == call.out.v.result
        IN /\ call.out.v.count = expected
           /\ IsOk(r) <=> call.fetch.t = "page"
           /\ IsOk(r) =>
                 /\ IsSome(r.v)
                 /\ Rendered(r.v.v[2]) = Min(expected, Len(call.fetch.elems))

\* a count of 2.5: five is handed to search, which returns five of the
\* seven results
C20_Witness ==
    /\ ArmReturned
    /\ "count" \in DOMAIN call.args.v
    /\ call.args.v.count = JFloat(2, 5)
    /\ call.out.v.count = 5
    /\ IsOk(call.out.v.result)
    /\ Rendered(call.out.v.result.v.v[2]) = 5

====
